---------------------------- MODULE Spec2Model ----------------------------
(***************************************************************************)
(* A model of src/src/merkle_tree.rs: a binary Merkle tree kept as one     *)
(* flat vector of digests (root first, leaves last) plus a leaf count,     *)
(* with construction (new), append (add), inclusion proofs (proof) and     *)
(* their verification (verify).                                            *)
(*                                                                         *)
(* SHA3-256 is modelled as a collision-free symbolic hash: hash(e) and     *)
(* hash_pair(e1, e2) are tagged tuples, so two digests are equal exactly   *)
(* when they were computed from the same inputs in the same order.         *)
(*                                                                         *)
(* Vectors are 0-based in the source and 1-based here; At(v, k) reads the  *)
(* source's v[k].  An indexing past the end of a vector is the panic       *)
(* "index_out_of_bounds"; the unbounded recursion of build_hashes on an    *)
(* empty vector is "stack_overflow".  A panic ends the run.                *)
(***************************************************************************)
EXTENDS Integers, Sequences, FiniteSets

\* ------------------------------------------------------------------ bounds

\* Longest element list ever handed to the tree (new plus all adds).
MaxLen == 8

\* Largest leaf index handed to proof and verify (indices 0 .. MaxIndex).
MaxIndex == 9

\* The element values; two equal elements may occur in one list.
Elems == {"a", "b"}

\* An element that is never inserted: its digest is foreign to every tree.
Foreign == "x"

Lists(n) == UNION {[1..k -> Elems] : k \in 0..n}

\* ------------------------------------------------------------------ faults

NoFault == "none"
IndexOutOfBounds == "index_out_of_bounds"
StackOverflow == "stack_overflow"

Ok(v) == [fault |-> NoFault, val |-> v]
Panic(f) == [fault |-> f, val |-> <<>>]

\* ----------------------------------------------------------------- hashing

\* hash(element): SHA3-256 of one element.
hash(element) == <<"hash", element>>

\* A lossy pair hash that forgets its second argument.
hash_pair_first_only(e1, e2) == <<"hash_pair", e1, e1>>

\* hash_pair(e1, e2): SHA3-256 of e1 followed by e2 (order matters).
hash_pair(e1, e2) == <<"hash_pair", e1, e2>>

\* The source's v[k], k counted from 0.
At(v, k) == v[k + 1]

\* hash_elements: the leaf digest of every element, in order.
hash_elements(elements) == [k \in 1..Len(elements) |-> hash(elements[k])]

\* ------------------------------------------------------------ build_hashes

\* hashes.chunks(2): consecutive slices of two, the last one shorter when
\* the length is odd.
chunks2(hashes) ==
  [k \in 1..((Len(hashes) + 1) \div 2) |->
     SubSeq(hashes, 2 * k - 1, IF 2 * k <= Len(hashes) THEN 2 * k ELSE 2 * k - 1)]

\* Concatenation in the wrong order: this level before the levels above it.
stack_levels_reversed(above, hashes) == hashes \o above

\* [build_hashes(h), hashes].concat(): the levels above, then this level.
stack_levels(above, hashes) == above \o hashes

\* A pairing step that pairs a lone last digest with itself.
pair_level_duplicating(hashes) ==
  LET c == chunks2(hashes)
  IN  Ok([k \in 1..Len(c) |-> hash_pair(c[k][1], c[k][Len(c[k])])])

\* The map over chunks(2): e[0] and e[1] of every chunk; e[1] of a chunk of
\* one digest is an index out of bounds.
pair_level(hashes) ==
  LET c == chunks2(hashes)
  IN  IF \E k \in 1..Len(c) : Len(c[k]) < 2
      THEN Panic(IndexOutOfBounds)
      ELSE Ok([k \in 1..Len(c) |-> hash_pair(c[k][1], c[k][2])])

RECURSIVE build_hashes(_)
build_hashes(hashes) ==
  IF Len(hashes) = 1 THEN Ok(hashes)
  ELSE LET h == pair_level(hashes)
       IN  IF h.fault # NoFault THEN h
           \* The level above an empty level is empty again: the call
           \* repeats itself with the same argument and never returns.
           ELSE IF h.val = hashes THEN Panic(StackOverflow)
           ELSE LET above == build_hashes(h.val)
                IN  IF above.fault # NoFault THEN above
                    ELSE Ok(stack_levels(above.val, hashes))

\* --------------------------------------------------------------------- new

\* MerkleTree::new: no tree is returned when build_hashes does not return.
new(elements) ==
  LET leaves == hash_elements(elements)
      built == build_hashes(leaves)
  IN  IF built.fault # NoFault
      THEN [fault |-> built.fault, hashes |-> <<>>, count |-> 0]
      ELSE [fault |-> NoFault, hashes |-> built.val, count |-> Len(elements)]

\* root(): hashes[0].
root(hashes) == At(hashes, 0)

\* --------------------------------------------------------------------- add

\* A slice that starts one position late and loses the first leaf.
old_leaves_late(hashes, count) == SubSeq(hashes, count + 1, Len(hashes))

\* self.hashes[self.count - 1 ..]: the current leaves.
old_leaves(hashes, count) == SubSeq(hashes, count, Len(hashes))

\* The new leaves put in front of the old ones.
concat_leaves_new_first(old, new_leaves) == new_leaves \o old

\* [old_leaves, new_leaves].concat()
concat_leaves(old, new_leaves) == old \o new_leaves

\* MerkleTree::add: count is assigned before build_hashes runs, hashes only
\* when build_hashes has returned.
add(hashes, count, elements) ==
  LET new_leaves == hash_elements(elements)
  IN  IF count - 1 > Len(hashes)
      THEN [fault |-> IndexOutOfBounds, hashes |-> hashes, count |-> count]
      ELSE LET leaves == concat_leaves(old_leaves(hashes, count), new_leaves)
               built == build_hashes(leaves)
           IN  [fault |-> built.fault,
                hashes |-> IF built.fault = NoFault THEN built.val ELSE hashes,
                count |-> Len(leaves)]

\* ------------------------------------------------------------------- proof

\* The node itself instead of its left sibling when the index is odd.
sibling_off_by_one(index, i) ==
  IF index % 2 = 0 THEN index + 1 + i ELSE index + i

\* The left neighbour whatever the parity of the index.
sibling_always_left(index, i) == index + i - 1

\* The position of the sibling of node index of the level starting at i.
sibling(index, i) ==
  IF index % 2 = 0 THEN index + 1 + i ELSE index + i - 1

\* The index is not halved on the way up.
parent_index_unhalved(index) == index

\* index = index / 2 in proof
parent_index(index) == index \div 2

\* i = (i + 1) / 2 - 1: where the level above starts.
level_above(i) == (i + 1) \div 2 - 1

\* The while loop of proof.
RECURSIVE proof_loop(_, _, _, _)
proof_loop(hashes, index, i, acc) ==
  IF i = 0 THEN Ok(acc)
  ELSE LET s == sibling(index, i)
       IN  IF s >= Len(hashes) THEN Panic(IndexOutOfBounds)
           ELSE proof_loop(hashes, parent_index(index), level_above(i),
                           Append(acc, At(hashes, s)))

\* MerkleTree::proof
proof(hashes, count, index) == proof_loop(hashes, index, count - 1, <<>>)

\* ------------------------------------------------------------------ verify

\* The running hash always on the left.
combine_ignoring_parity(h, p, index) == hash_pair(h, p)

\* One step of the loop of verify: the running hash on the left when the
\* index is even, on the right when it is odd.
combine(h, p, index) ==
  IF index % 2 = 0 THEN hash_pair(h, p) ELSE hash_pair(p, h)

\* The for loop of verify, from proof entry k on.
RECURSIVE verify_loop(_, _, _, _)
verify_loop(h, prf, k, index) ==
  IF k > Len(prf) THEN h
  ELSE verify_loop(combine(h, prf[k], index), prf, k + 1, index \div 2)

\* MerkleTree::verify
verify(hashes, count, prf, index) ==
  IF count - 1 + index >= Len(hashes) THEN Panic(IndexOutOfBounds)
  ELSE Ok(verify_loop(At(hashes, count - 1 + index), prf, 1, index) = root(hashes))

\* ------------------------------------------------------------------- state

VARIABLES
  hashes,     \* MerkleTree.hashes
  count,      \* MerkleTree.count
  elems,      \* every element handed to new and add so far, in order
  initial,    \* how many elements new was given
  fresh,      \* the tree is as new returned it: no add has been called
  op,         \* the last call: "none", "new", "add", "proof", "verify"
  fault,      \* how the last call ended
  argIndex,   \* the index argument of the last proof or verify
  srcIndex,   \* verify: the leaf whose proof was handed in
  tamperPos,  \* verify: which entry of that proof was replaced (0: none)
  argProof,   \* verify: the proof handed in
  retProof,   \* what proof returned
  retBool     \* what verify returned

vars == <<hashes, count, elems, initial, fresh, op, fault, argIndex, srcIndex,
          tamperPos, argProof, retProof, retBool>>

\* A tree exists and no call has panicked.
Live == op # "none" /\ fault = NoFault

Init ==
  /\ hashes = <<>>
  /\ count = 0
  /\ elems = <<>>
  /\ initial = 0
  /\ fresh = TRUE
  /\ op = "none"
  /\ fault = NoFault
  /\ argIndex = 0
  /\ srcIndex = 0
  /\ tamperPos = 0
  /\ argProof = <<>>
  /\ retProof = <<>>
  /\ retBool = FALSE

NoCallRecord ==
  /\ argIndex' = 0
  /\ srcIndex' = 0
  /\ tamperPos' = 0
  /\ argProof' = <<>>
  /\ retProof' = <<>>
  /\ retBool' = FALSE

\* MerkleTree::new(elements)
New ==
  /\ op = "none"
  /\ \E elements \in Lists(MaxLen) :
       LET r == new(elements)
       IN  /\ hashes' = r.hashes
           /\ count' = r.count
           /\ fault' = r.fault
           /\ elems' = elements
           /\ initial' = Len(elements)
  /\ fresh' = TRUE
  /\ op' = "new"
  /\ NoCallRecord

\* tree.add(elements)
Add ==
  /\ Live
  /\ \E elements \in Lists(MaxLen - Len(elems)) :
       LET r == add(hashes, count, elements)
       IN  /\ hashes' = r.hashes
           /\ count' = r.count
           /\ fault' = r.fault
           /\ elems' = elems \o elements
  /\ fresh' = FALSE
  /\ UNCHANGED initial
  /\ op' = "add"
  /\ NoCallRecord

\* tree.proof(index)
Proof ==
  /\ Live
  /\ \E index \in 0..MaxIndex :
       LET r == proof(hashes, count, index)
       IN  /\ argIndex' = index
           /\ fault' = r.fault
           /\ retProof' = r.val
  /\ op' = "proof"
  /\ srcIndex' = 0
  /\ tamperPos' = 0
  /\ argProof' = <<>>
  /\ retBool' = FALSE
  /\ UNCHANGED <<hashes, count, elems, initial, fresh>>

\* The digests a proof entry of leaf i is replaced by.
TamperDigests(i) ==
  {hash(e) : e \in Elems \cup {Foreign}}
    \cup {root(hashes), At(hashes, count - 1 + i)}

\* What is handed to verify after proof(i) has returned: the returned proof
\* with any index, or that proof with one entry replaced by another digest
\* and the index i.
VerifyInputs ==
  {[pos |-> 0, prf |-> retProof, index |-> j] : j \in 0..MaxIndex}
    \cup
  UNION {{[pos |-> k, prf |-> [retProof EXCEPT ![k] = d], index |-> argIndex] :
            d \in TamperDigests(argIndex) \ {retProof[k]}} :
         k \in 1..Len(retProof)}

\* let proof = tree.proof(i); tree.verify(&proof, index)
Verify ==
  /\ Live
  /\ op = "proof"
  /\ argIndex < count
  /\ \E in \in VerifyInputs :
       LET r == verify(hashes, count, in.prf, in.index)
       IN  /\ argIndex' = in.index
           /\ tamperPos' = in.pos
           /\ argProof' = in.prf
           /\ fault' = r.fault
           /\ retBool' = (r.fault = NoFault /\ r.val)
  /\ srcIndex' = argIndex
  /\ op' = "verify"
  /\ retProof' = <<>>
  /\ UNCHANGED <<hashes, count, elems, initial, fresh>>

Next == New \/ Add \/ Proof \/ Verify

Spec == Init /\ [][Next]_vars

\* ------------------------------------------------------------ vocabulary

\* n is 1, 2, 4, 8, ...
IsPow2(n) == \E d \in 0..n : 2 ^ d = n

\* The d with 2^d = n, for such an n.
Depth(n) == CHOOSE d \in 0..n : 2 ^ d = n

\* x XOR 1
Xor1(x) == IF x % 2 = 0 THEN x + 1 ELSE x - 1

\* The digest of leaf i of the current tree.
Leaf(i) == At(hashes, count - 1 + i)

\* verify was handed, untampered, the proof of the leaf it is asked about.
OwnProofVerified == op = "verify" /\ tamperPos = 0 /\ argIndex = srcIndex

\* ------------------------------------------------------------------ claims

\* C1. Round-trip proof: in a tree as new returned it (leaf count a power
\* of two), verify(proof(i), i) returns true for every leaf index i.
RoundTripFresh ==
  (fresh /\ OwnProofVerified) => (fault = NoFault /\ retBool = TRUE)

RoundTripFreshWitness ==
  /\ fresh /\ OwnProofVerified
  /\ count = 8 /\ argIndex = 3 /\ Len(argProof) = 3
  /\ retBool = TRUE

\* C2. Append consistency: once add has completed (any number of times,
\* every running total a power of two), the node list and the count, and so
\* the root, are those of new applied to all the elements in order.
AppendConsistency ==
  (Live /\ ~fresh) =>
     LET r == new(elems)
     IN  /\ r.fault = NoFault
         /\ hashes = r.hashes
         /\ count = r.count
         /\ root(hashes) = root(r.hashes)

AppendConsistencyWitness ==
  /\ op = "add" /\ fault = NoFault
  /\ initial = 2 /\ count = 4
  /\ elems = <<"a", "b", "b", "a">>

\* C3. Layout invariant: after new and after every add that completes, the
\* node list has 2*count - 1 entries, every position p above the leaf level
\* holds hash_pair of positions 2p+1 and 2p+2 (so the level of size s lies
\* at s-1 .. 2s-2 and position 0 is the root), and the last count positions
\* hold the leaf digests of the elements in insertion order.
LayoutInvariant ==
  Live =>
    /\ count = Len(elems)
    /\ Len(hashes) = 2 * count - 1
    /\ \A p \in 0..(count - 2) :
         At(hashes, p) = <<"hash_pair", At(hashes, 2 * p + 1), At(hashes, 2 * p + 2)>>
    /\ \A i \in 0..(count - 1) : Leaf(i) = <<"hash", elems[i + 1]>>

LayoutInvariantWitness ==
  /\ op = "add" /\ fault = NoFault
  /\ initial = 4 /\ count = 8 /\ Len(hashes) = 15

\* C4 as stated. Wrong-index detection for any element values: verify
\* handed the proof of leaf i and another leaf index j returns false.
WrongIndexAlwaysDetected ==
  (op = "verify" /\ tamperPos = 0 /\ argIndex # srcIndex /\ argIndex < count)
    => (fault = NoFault /\ retBool = FALSE)

\* C4 as amended. verify handed the proof of leaf i and another leaf index
\* j whose leaf digest differs from that of leaf i returns false.
WrongIndexDetected ==
  (/\ op = "verify" /\ tamperPos = 0
   /\ argIndex # srcIndex /\ argIndex < count
   /\ Leaf(argIndex) # Leaf(srcIndex))
    => (fault = NoFault /\ retBool = FALSE)

WrongIndexDetectedWitness ==
  /\ op = "verify" /\ tamperPos = 0 /\ fault = NoFault
  /\ count = 4 /\ srcIndex = 2 /\ argIndex = 3
  /\ Leaf(2) # Leaf(3)
  /\ retBool = FALSE

\* C5 as stated. No partial failure: an add that does not complete leaves
\* both the count and the node list as they were before the call.
NoPartialFailure ==
  [][(op' = "add" /\ fault' # NoFault) => (count' = count /\ hashes' = hashes)]_vars

\* C6 as stated. For every index >= count both proof and verify end in an
\* out-of-bounds panic.
OutOfRangeAlwaysFaults ==
  (op \in {"proof", "verify"} /\ argIndex >= count) => fault = IndexOutOfBounds

\* C6 as amended. For every index >= count, verify ends in an out-of-bounds
\* panic, and so does proof in a tree of two or more leaves; in a tree of one
\* leaf proof returns the empty proof for every index.
OutOfRangeFaults ==
  /\ (op = "verify" /\ argIndex >= count) => fault = IndexOutOfBounds
  /\ (op = "proof" /\ argIndex >= count /\ count >= 2) => fault = IndexOutOfBounds
  /\ (op = "proof" /\ count = 1) => (fault = NoFault /\ retProof = <<>>)

OutOfRangeFaultsWitness ==
  /\ op = "proof" /\ count = 8 /\ argIndex = 9
  /\ fault = IndexOutOfBounds

\* C7 as stated. new on an empty list or on a list whose length is not a
\* power of two ends in an out-of-bounds panic.
InvalidCountsPanicOutOfBounds ==
  (op = "new" /\ ~IsPow2(Len(elems))) => fault = IndexOutOfBounds

\* C7 as amended. new on a list of two or more elements whose number is not
\* a power of two ends in an out-of-bounds panic; on the empty list it never
\* returns either, but by unbounded recursion of build_hashes, not by an
\* index fault; no tree is returned in either case; and build_hashes (in new
\* and in add) returns normally exactly when its input length is a power of
\* two >= 1.
InvalidCountsFail ==
  /\ op = "new" =>
       /\ fault = NoFault <=> IsPow2(Len(elems))
       /\ Len(elems) = 0 => fault = StackOverflow
       /\ (Len(elems) > 0 /\ ~IsPow2(Len(elems))) => fault = IndexOutOfBounds
       /\ fault # NoFault => (hashes = <<>> /\ count = 0)
  /\ op = "add" =>
       /\ fault = NoFault <=> IsPow2(Len(elems))
       /\ fault \in {NoFault, IndexOutOfBounds}

InvalidCountsFailWitness ==
  /\ op = "new" /\ Len(elems) = 6
  /\ fault = IndexOutOfBounds /\ hashes = <<>>

\* C8. Tampered-proof detection: verify handed the proof of leaf i with one
\* entry replaced by a different digest, and the index i, returns false.
TamperDetected ==
  (op = "verify" /\ tamperPos # 0) => (fault = NoFault /\ retBool = FALSE)

TamperDetectedWitness ==
  /\ op = "verify" /\ count = 8 /\ tamperPos = 2
  /\ argIndex = srcIndex /\ argProof[2] = <<"hash", Foreign>>
  /\ retBool = FALSE

\* C9. Proof shape: in a tree of count = 2^d leaves, proof(i) for i < count
\* returns d digests, the k-th (k = 0 .. d-1) being the sibling of the
\* ancestor of leaf i at height k, nodes[count / 2^k - 1 + ((i / 2^k) XOR 1)];
\* for count = 1 the proof is empty.
ProofShape ==
  (op = "proof" /\ argIndex < count) =>
     /\ fault = NoFault
     /\ Len(retProof) = Depth(count)
     /\ \A k \in 0..(Depth(count) - 1) :
          retProof[k + 1] =
            At(hashes, (count \div (2 ^ k)) - 1 + Xor1(argIndex \div (2 ^ k)))
     /\ count = 1 => retProof = <<>>

ProofShapeWitness ==
  /\ op = "proof" /\ fault = NoFault
  /\ count = 8 /\ argIndex = 5 /\ Len(retProof) = 3

\* C10. Round-trip survives appends: after new and any number of completed
\* adds, verify(proof(i), i) returns true for every leaf index i, old or
\* appended, and leaf i is still the digest of the i-th element inserted.
RoundTripAfterAdd ==
  (~fresh /\ OwnProofVerified) =>
     /\ fault = NoFault
     /\ retBool = TRUE
     /\ Leaf(argIndex) = <<"hash", elems[argIndex + 1]>>

RoundTripAfterAddWitness ==
  /\ ~fresh /\ OwnProofVerified
  /\ initial = 2 /\ count = 8 /\ argIndex = 1
  /\ elems[1] # elems[2]
  /\ retBool = TRUE

=============================================================================
